---------------------------- MODULE Spec2Model ----------------------------
(***************************************************************************)
(* A state-machine model of the three C++11 snippets under                 *)
(* src/analysis/cpp11/codeSnippets:                                        *)
(*                                                                         *)
(*   initLists.cxx  class Position, brace initialisation, a range-for loop *)
(*   nullptr.cxx    overload resolution of printMe for 0 and nullptr       *)
(*   variadic.cxx   the recursive variadic template adder                  *)
(*                                                                         *)
(* Each program is one main().  A behaviour of the model is one run of one *)
(* program: Init chooses the program (prog), the toolchain that built it   *)
(* (build, which fixes the implementation-defined texts) and the literals  *)
(* the program is written with.  The literals of the source are the        *)
(* distinguished instance (MainCentre, MainPlaces, MainCalls, MainArgs);   *)
(* the other instances apply the same statements, constructors and         *)
(* functions to other literals drawn from bounded sets, so that what is    *)
(* said about Position, printMe and adder in general is checked on more    *)
(* than one input.                                                         *)
(*                                                                         *)
(* Integers: every value the model adds is at most MaxLen * MaxVal or the  *)
(* sum of the source's literals in magnitude, far inside the range of int, *)
(* so signed overflow (undefined behaviour) is not reachable here.         *)
(***************************************************************************)
EXTENDS Integers, Sequences, FiniteSets, TLC

VARIABLES
  prog,                 \* which of the three programs runs
  build,                \* the toolchain that built it
  pc,                   \* main's position
  out,                  \* the lines written to std::cout, in order
  exitCode,             \* <<>> while running, <<c>> once main has returned c
  \* initLists.cxx
  centreInit,           \* the brace list initialising centreOfTheUniverse
  placesInit,           \* the brace lists initialising places
  centreOfTheUniverse,  \* <<>> before construction, <<Position>> after
  places,               \* the std::vector<Position>
  it,                   \* the range-for's iterator, an index into places
  i,                    \* the range-for's loop variable (a copy): <<>> or <<Position>>
  \* nullptr.cxx
  calls,                \* the argument expressions of main's printMe calls
  k,                    \* the next call of main
  dispatched,           \* history: the overload each call resolved to
  \* variadic.cxx
  callArgs,             \* the arguments of main's adder call
  stack,                \* the adder activations, innermost last
  ret,                  \* <<>> or <<the value the last finished adder returned>>
  events                \* history: what the adder activations did, in order

vars == << prog, build, pc, out, exitCode,
           centreInit, placesInit, centreOfTheUniverse, places, it, i,
           calls, k, dispatched,
           callArgs, stack, ret, events >>

initListsVars == << centreInit, placesInit, centreOfTheUniverse, places, it, i >>
nullptrVars   == << calls, k, dispatched >>
variadicVars  == << callArgs, stack, ret, events >>

---------------------------------------------------------------------------
(* Bounds of the instances.                                                *)

MaxVal    == 1      \* integer literals range over -MaxVal .. MaxVal
MaxLen    == 3      \* adder is called with 1 .. MaxLen such literals
MaxPlaces == 3      \* places is initialised with 0 .. MaxPlaces brace lists
MaxCalls  == 2      \* main makes 1 .. MaxCalls printMe calls

Values == (0 - MaxVal) .. MaxVal

SeqsUpTo(S, lo, hi) == UNION { [1..n -> S] : n \in lo..hi }

---------------------------------------------------------------------------
(* The literals of the source.                                             *)

Programs   == { "initLists", "nullptr", "variadic" }
Toolchains == { "gcc", "clang" }

MainCentre == << -1, -100, -1 >>
MainPlaces == << <<1, 2, 3>>, << >>, <<4, 5, 6>> >>
MainCalls  == << "0", "nullptr" >>
MainArgs   == << 1, 2, 3, 8, 7 >>

\* The brace lists that appear in initLists.cxx.
SourceBraces == { MainCentre } \cup { MainPlaces[n] : n \in 1..Len(MainPlaces) }

\* A brace list that initialises a Position has no element or three.
BraceLists == { << >> } \cup [1..3 -> Values] \cup SourceBraces

---------------------------------------------------------------------------
(* initLists.cxx: class Position.                                          *)

\* Position::Position()
Position_default == [fX |-> 0, fY |-> 0, fZ |-> 0]

\* Seeded fault: the constructor stores y and z the wrong way round.
Position_xyz_swapped(x, y, z) == [fX |-> x, fY |-> z, fZ |-> y]

\* Position::Position(int x, int y, int z)
Position_xyz(x, y, z) == [fX |-> x, fY |-> y, fZ |-> z]

\* List-initialisation of a Position: {} selects the default constructor,
\* {x, y, z} the three-argument one.
BraceInit(b) ==
  IF Len(b) = 0 THEN Position_default ELSE Position_xyz(b[1], b[2], b[3])

\* std::vector<Position>'s initializer-list constructor: one element per
\* brace list, each list-initialised, in the order written.
VectorInit(bs) == [n \in 1..Len(bs) |-> BraceInit(bs[n])]

\* Seeded fault: printCoordinates writes fY where fZ belongs.
printCoordinates_yTwice(self) ==
  [ line |-> "(" \o ToString(self.fX) \o ", " \o ToString(self.fY)
                 \o ", " \o ToString(self.fY) \o ")",
    self |-> self ]

\* Seeded fault: printCoordinates clears fX after writing the line.
printCoordinates_resetting(self) ==
  [ line |-> "(" \o ToString(self.fX) \o ", " \o ToString(self.fY)
                 \o ", " \o ToString(self.fZ) \o ")",
    self |-> [self EXCEPT !.fX = 0] ]

\* Position::printCoordinates(): the line it writes and the object it
\* leaves behind (it assigns to no field).
printCoordinates(self) ==
  [ line |-> "(" \o ToString(self.fX) \o ", " \o ToString(self.fY)
                 \o ", " \o ToString(self.fZ) \o ")",
    self |-> self ]

---------------------------------------------------------------------------
(* nullptr.cxx: the two overloads of printMe and the choice between them.  *)

Overloads == { "printMe(int)", "printMe(int*)" }

\* Seeded fault: nullptr treated as the integer literal 0 (as a macro
\* defined to 0 would be).
ConversionRank_nullptrIsZero(arg, overload) ==
  CASE arg \in { "0", "nullptr" } /\ overload = "printMe(int)"  -> 1
    [] arg \in { "0", "nullptr" } /\ overload = "printMe(int*)" -> 3
    [] arg = "NULL" -> 3

\* The rank of the implicit conversion of an argument expression to an
\* overload's parameter type: 1 an exact match, 3 a conversion, 0 when
\* there is none.  The literal 0 is an int and also a null pointer
\* constant; nullptr has type std::nullptr_t, which converts to any pointer
\* type and to no integer type; NULL (line 10, commented out) converts to
\* both parameter types with the same rank.
ConversionRank(arg, overload) ==
  CASE arg = "0"       /\ overload = "printMe(int)"  -> 1
    [] arg = "0"       /\ overload = "printMe(int*)" -> 3
    [] arg = "nullptr" /\ overload = "printMe(int)"  -> 0
    [] arg = "nullptr" /\ overload = "printMe(int*)" -> 3
    [] arg = "NULL"    /\ overload = "printMe(int)"  -> 3
    [] arg = "NULL"    /\ overload = "printMe(int*)" -> 3

Viable(arg) == { o \in Overloads : ConversionRank(arg, o) # 0 }

\* Overload resolution: the viable overloads no other viable overload
\* beats.  The call is well-formed when exactly one remains.
Resolve(arg) ==
  { o \in Viable(arg) :
      \A o2 \in Viable(arg) : ConversionRank(arg, o) <= ConversionRank(arg, o2) }

\* operator<<(const void*) of a null pointer: the text is
\* implementation-defined.
NullPointerText(b) == IF b = "gcc" THEN "0" ELSE "0x0"

\* void printMe(int i)
printMe_int(n) == "I am an integer: " \o ToString(n)

\* void printMe(int *i), called with the null pointer
printMe_intptr(b) == "I am a pointer to an integer: " \o NullPointerText(b)

---------------------------------------------------------------------------
(* variadic.cxx: the two overloads of adder.                               *)

\* "int, int, ..., int" with n entries: the types of a pack of n ints.
RECURSIVE TypeList(_)
TypeList(n) == IF n = 1 THEN "int" ELSE "int, " \o TypeList(n - 1)

\* __PRETTY_FUNCTION__ inside adder(T first, Args... args) called with n
\* ints, so with a pack of n - 1: the text is implementation-defined.
PrettyFunction(b, n) ==
  IF b = "gcc"
    THEN "T adder(T, Args ...) [with T = int; Args = {" \o TypeList(n - 1) \o "}]"
    ELSE "T adder(T, Args...) [T = int, Args = <" \o TypeList(n - 1) \o ">]"

\* Which template a call adder(a1, ..., an) instantiates: with one
\* argument both are viable and the non-variadic one is more specialised;
\* with two or more only the variadic one is viable.
AdderOverload(args) ==
  IF Len(args) = 1 THEN "adder(T)" ELSE "adder(T, Args...)"

\* The activation record of a call adder(args...): at is the position
\* inside the body.
Frame(args) ==
  [ args |-> args,
    at   |-> IF AdderOverload(args) = "adder(T)" THEN "return" ELSE "print" ]

\* Seeded fault: the recursive call drops the last argument, not the first.
Pack_dropLast(args) == SubSeq(args, 1, Len(args) - 1)

\* Seeded fault: the recursive call drops two arguments where it can.
Pack_dropTwo(args) == IF Len(args) > 2 THEN Tail(Tail(args)) ELSE Tail(args)

\* The pack expansion args... of adder(first, args...): every argument
\* but the first, in order.
Pack(args) == Tail(args)

\* Seeded fault: return adder(args...), first forgotten.
Plus_dropFirst(first, rest) == rest

\* Seeded fault: return first - adder(args...).
Plus_minus(first, rest) == first - rest

\* first + adder(args...), on ints
Plus(first, rest) == first + rest

Top == stack[Len(stack)]
Pop == SubSeq(stack, 1, Len(stack) - 1)
SetTopAt(at) == [stack EXCEPT ![Len(stack)].at = at]

---------------------------------------------------------------------------
(* The initial states.                                                     *)

InitCommon ==
  /\ build \in Toolchains
  /\ pc = "start"
  /\ out = << >>
  /\ exitCode = << >>
  /\ centreOfTheUniverse = << >>
  /\ places = << >>
  /\ it = 1
  /\ i = << >>
  /\ k = 1
  /\ dispatched = << >>
  /\ stack = << >>
  /\ ret = << >>
  /\ events = << >>

\* initLists.cxx as written, or with another brace list for
\* centreOfTheUniverse, or with another list of the source's brace lists
\* for places.
InitInitLists ==
  /\ prog = "initLists"
  /\ \/ centreInit \in BraceLists /\ placesInit = MainPlaces
     \/ centreInit = MainCentre /\ placesInit \in SeqsUpTo(SourceBraces, 0, MaxPlaces)
  /\ calls = << >>
  /\ callArgs = << >>

\* nullptr.cxx as written, or with other well-formed calls of printMe.
InitNullptr ==
  /\ prog = "nullptr"
  /\ calls \in SeqsUpTo({ "0", "nullptr" }, 1, MaxCalls) \cup { MainCalls }
  /\ centreInit = << >>
  /\ placesInit = << >>
  /\ callArgs = << >>

\* variadic.cxx as written, or with other int arguments to adder.
InitVariadic ==
  /\ prog = "variadic"
  /\ callArgs \in SeqsUpTo(Values, 1, MaxLen) \cup { MainArgs }
  /\ centreInit = << >>
  /\ placesInit = << >>
  /\ calls = << >>

Init == InitCommon /\ (InitInitLists \/ InitNullptr \/ InitVariadic)

---------------------------------------------------------------------------
(* initLists.cxx: main, lines 18-25.                                       *)

\* line 20: Position centreOfTheUniverse = {-1, -100, -1};
ConstructCentre ==
  /\ prog = "initLists" /\ pc = "start"
  /\ centreOfTheUniverse' = << BraceInit(centreInit) >>
  /\ pc' = "printCentre"
  /\ UNCHANGED << prog, build, out, exitCode, centreInit, placesInit, places, it, i,
                  nullptrVars, variadicVars >>

\* line 21: centreOfTheUniverse.printCoordinates();
PrintCentre ==
  /\ prog = "initLists" /\ pc = "printCentre"
  /\ LET r == printCoordinates(centreOfTheUniverse[1])
     IN  /\ out' = Append(out, r.line)
         /\ centreOfTheUniverse' = << r.self >>
  /\ pc' = "constructPlaces"
  /\ UNCHANGED << prog, build, exitCode, centreInit, placesInit, places, it, i,
                  nullptrVars, variadicVars >>

\* line 23: std::vector<Position> places = {{1, 2, 3}, {}, {4, 5, 6}};
\* and the range-for's begin().
ConstructPlaces ==
  /\ prog = "initLists" /\ pc = "constructPlaces"
  /\ places' = VectorInit(placesInit)
  /\ it' = 1
  /\ pc' = "loopTest"
  /\ UNCHANGED << prog, build, out, exitCode, centreInit, placesInit,
                  centreOfTheUniverse, i, nullptrVars, variadicVars >>

\* line 24, for(auto i : places): the iterator is not at end(); i is
\* copy-constructed from the element.
LoopCopy ==
  /\ prog = "initLists" /\ pc = "loopTest"
  /\ it <= Len(places)
  /\ i' = << places[it] >>
  /\ pc' = "loopBody"
  /\ UNCHANGED << prog, build, out, exitCode, centreInit, placesInit,
                  centreOfTheUniverse, places, it, nullptrVars, variadicVars >>

\* line 24, the body: i.printCoordinates();
LoopBody ==
  /\ prog = "initLists" /\ pc = "loopBody"
  /\ LET r == printCoordinates(i[1])
     IN  /\ out' = Append(out, r.line)
         /\ i' = << r.self >>
  /\ pc' = "loopNext"
  /\ UNCHANGED << prog, build, exitCode, centreInit, placesInit,
                  centreOfTheUniverse, places, it, nullptrVars, variadicVars >>

\* line 24, the end of an iteration: the copy is destroyed (line 10, the
\* destructor does nothing) and the iterator advances.
LoopNext ==
  /\ prog = "initLists" /\ pc = "loopNext"
  /\ i' = << >>
  /\ it' = it + 1
  /\ pc' = "loopTest"
  /\ UNCHANGED << prog, build, out, exitCode, centreInit, placesInit,
                  centreOfTheUniverse, places, nullptrVars, variadicVars >>

\* line 24: the iterator is at end().
LoopExit ==
  /\ prog = "initLists" /\ pc = "loopTest"
  /\ it > Len(places)
  /\ pc' = "return"
  /\ UNCHANGED << prog, build, out, exitCode, initListsVars, nullptrVars, variadicVars >>

---------------------------------------------------------------------------
(* nullptr.cxx: main, lines 8-12.                                          *)

\* The next call of main is at the end of the statement list or not.
AfterCall == IF k = Len(calls) THEN "return" ELSE "start"

\* line 9, printMe(0): a call that resolves to printMe(int), line 5.
CallPrintMeInt ==
  /\ prog = "nullptr" /\ pc = "start"
  /\ Resolve(calls[k]) = { "printMe(int)" }
  /\ out' = Append(out, printMe_int(0))
  /\ dispatched' = Append(dispatched, "printMe(int)")
  /\ k' = k + 1
  /\ pc' = AfterCall
  /\ UNCHANGED << prog, build, exitCode, calls, initListsVars, variadicVars >>

\* line 11, printMe(nullptr): a call that resolves to printMe(int*), line 6.
CallPrintMeIntPtr ==
  /\ prog = "nullptr" /\ pc = "start"
  /\ Resolve(calls[k]) = { "printMe(int*)" }
  /\ out' = Append(out, printMe_intptr(build))
  /\ dispatched' = Append(dispatched, "printMe(int*)")
  /\ k' = k + 1
  /\ pc' = AfterCall
  /\ UNCHANGED << prog, build, exitCode, calls, initListsVars, variadicVars >>

---------------------------------------------------------------------------
(* variadic.cxx: main, lines 20-23, and adder, lines 9-18.                 *)
(* An event is <<"enter", n>>, <<"print", n>>, <<"add", n, first, rest>>   *)
(* or <<"return", n, value>>, n being the number of arguments of the       *)
(* activation that did it.                                                 *)

\* line 22: main calls adder(1, 2, 3, 8, 7).
MainCallAdder ==
  /\ prog = "variadic" /\ pc = "start"
  /\ stack' = << Frame(callArgs) >>
  /\ events' = Append(events, << "enter", Len(callArgs) >>)
  /\ pc' = "inAdder"
  /\ UNCHANGED << prog, build, out, exitCode, callArgs, ret, initListsVars, nullptrVars >>

\* lines 10-12, T adder(T v): return v.
AdderBase ==
  /\ prog = "variadic" /\ pc = "inAdder" /\ stack # << >>
  /\ AdderOverload(Top.args) = "adder(T)" /\ Top.at = "return"
  /\ ret' = << Top.args[1] >>
  /\ events' = Append(events, << "return", Len(Top.args), Top.args[1] >>)
  /\ stack' = Pop
  /\ UNCHANGED << prog, build, pc, out, exitCode, callArgs, initListsVars, nullptrVars >>

\* Seeded fault: line 16 left out, the variadic overload prints nothing.
AdderPrint_silent ==
  /\ prog = "variadic" /\ pc = "inAdder" /\ stack # << >>
  /\ stack[Len(stack)].at = "print"
  /\ stack' = [stack EXCEPT ![Len(stack)].at = "call"]
  /\ UNCHANGED << prog, build, pc, out, exitCode, callArgs, ret, events,
                  initListsVars, nullptrVars >>

\* line 16: std::cout << __PRETTY_FUNCTION__ << "\n".
AdderPrint ==
  /\ prog = "variadic" /\ pc = "inAdder" /\ stack # << >>
  /\ Top.at = "print"
  /\ out' = Append(out, PrettyFunction(build, Len(Top.args)))
  /\ events' = Append(events, << "print", Len(Top.args) >>)
  /\ stack' = SetTopAt("call")
  /\ UNCHANGED << prog, build, pc, exitCode, callArgs, ret, initListsVars, nullptrVars >>

\* line 17, the operand adder(args...): the recursive call.
AdderRecurse ==
  /\ prog = "variadic" /\ pc = "inAdder" /\ stack # << >>
  /\ Top.at = "call"
  /\ stack' = Append(SetTopAt("add"), Frame(Pack(Top.args)))
  /\ events' = Append(events, << "enter", Len(Pack(Top.args)) >>)
  /\ UNCHANGED << prog, build, pc, out, exitCode, callArgs, ret, initListsVars, nullptrVars >>

\* line 17, return first + adder(args...): the callee has returned.
AdderAdd ==
  /\ prog = "variadic" /\ pc = "inAdder" /\ stack # << >>
  /\ Top.at = "add" /\ ret # << >>
  /\ LET first == Top.args[1]
         sum   == Plus(first, ret[1])
     IN  /\ ret' = << sum >>
         /\ events' = Append(Append(events, << "add", Len(Top.args), first, ret[1] >>),
                             << "return", Len(Top.args), sum >>)
  /\ stack' = Pop
  /\ UNCHANGED << prog, build, pc, out, exitCode, callArgs, initListsVars, nullptrVars >>

\* line 22: the call has returned; the expression statement discards the
\* value.
MainDiscard ==
  /\ prog = "variadic" /\ pc = "inAdder" /\ stack = << >>
  /\ pc' = "return"
  /\ UNCHANGED << prog, build, out, exitCode, initListsVars, nullptrVars, variadicVars >>

---------------------------------------------------------------------------
(* The end of each main: control flows off the end, which returns 0.       *)

\* Seeded fault: main returns 1.
MainReturn_nonzero ==
  /\ pc = "return"
  /\ exitCode' = << 1 >>
  /\ pc' = "done"
  /\ UNCHANGED << prog, build, out, initListsVars, nullptrVars, variadicVars >>

MainReturn ==
  /\ pc = "return"
  /\ exitCode' = << 0 >>
  /\ pc' = "done"
  /\ UNCHANGED << prog, build, out, initListsVars, nullptrVars, variadicVars >>

Next ==
  \/ ConstructCentre \/ PrintCentre \/ ConstructPlaces
  \/ LoopCopy \/ LoopBody \/ LoopNext \/ LoopExit
  \/ CallPrintMeInt \/ CallPrintMeIntPtr
  \/ MainCallAdder \/ AdderBase \/ AdderPrint \/ AdderRecurse \/ AdderAdd
  \/ MainDiscard
  \/ MainReturn

Spec == Init /\ [][Next]_vars

\* The programs are single-threaded: a statement that can run does run.
FairSpec == Spec /\ WF_vars(Next)

---------------------------------------------------------------------------
(* Vocabulary of the properties.                                           *)

IsMainInitLists ==
  prog = "initLists" /\ centreInit = MainCentre /\ placesInit = MainPlaces
IsMainNullptr   == prog = "nullptr" /\ calls = MainCalls
IsMainVariadic  == prog = "variadic" /\ callArgs = MainArgs

IsPrefix(s, t) == Len(s) <= Len(t) /\ \A n \in 1..Len(s) : s[n] = t[n]

\* The arithmetic sum of a sequence of integers, accumulated from the left.
RECURSIVE SumFirst(_, _)
SumFirst(s, n) == IF n = 0 THEN 0 ELSE SumFirst(s, n - 1) + s[n]
SumSeq(s) == SumFirst(s, Len(s))

\* The last m elements of s.
Suffix(s, m) == [n \in 1..m |-> s[Len(s) - m + n]]

EventsOf(kind) == SelectSeq(events, LAMBDA e : e[1] = kind)

\* places has been constructed (line 23 has run).
PlacesConstructed ==
  prog = "initLists" /\ pc \in { "loopTest", "loopBody", "loopNext", "return", "done" }

\* main's adder call has returned.
AdderReturned == prog = "variadic" /\ pc \in { "return", "done" }

---------------------------------------------------------------------------
(* C1.  initLists.cxx as written prints exactly the four lines             *)
(* "(-1, -100, -1)", "(1, 2, 3)", "(0, 0, 0)", "(4, 5, 6)", in this order: *)
(* at every moment the output is a prefix of that list, and when main has  *)
(* finished it is the whole list (so nothing else and nothing twice).      *)

MainInitListsOutput == << "(-1, -100, -1)", "(1, 2, 3)", "(0, 0, 0)", "(4, 5, 6)" >>

\* C1: initLists.cxx as written prints exactly its four lines, in order, each once.
C1_OutputOfInitLists ==
  IsMainInitLists =>
    /\ IsPrefix(out, MainInitListsOutput)
    /\ pc = "done" => out = MainInitListsOutput

C1_Witness ==
  IsMainInitLists /\ pc = "done" /\ Len(out) = 4 /\ out[4] = "(4, 5, 6)"

---------------------------------------------------------------------------
(* C2.  Once main's call of adder has returned, the value returned is the  *)
(* arithmetic sum of all the arguments of the call, for every non-empty    *)
(* argument sequence of the instances; for adder(1, 2, 3, 8, 7) it is 21.  *)

\* C2: adder returns the arithmetic sum of its arguments; 21 for main's call.
C2_AdderReturnsSum ==
  AdderReturned =>
    /\ ret = << SumSeq(callArgs) >>
    /\ IsMainVariadic => ret = << 21 >>

C2_Witness ==
  IsMainVariadic /\ pc = "done" /\ ret = << 21 >>

---------------------------------------------------------------------------
(* C3.  A call of adder with n >= 1 arguments prints exactly n - 1 lines:  *)
(* every line of the output is printed by an activation of the variadic    *)
(* overload (2 or more arguments), each such activation prints at most one *)
(* line and, once the call has returned, exactly one; the one-argument     *)
(* base case prints nothing.  adder(1, 2, 3, 8, 7) prints exactly 4 lines. *)

\* C3: a call with n arguments prints n - 1 lines, one per variadic activation,
\* none in the base case; 4 for main's call.
C3_SignatureLines ==
  prog = "variadic" =>
    LET prints == EventsOf("print")
        n      == Len(callArgs)
    IN  /\ Len(out) = Len(prints)
        /\ \A a \in 1..Len(prints) : prints[a][2] >= 2
        /\ \A a, b \in 1..Len(prints) : prints[a][2] = prints[b][2] => a = b
        /\ AdderReturned =>
             /\ Len(out) = n - 1
             /\ \A m \in 2..n : \E a \in 1..Len(prints) : prints[a][2] = m
             /\ IsMainVariadic => Len(out) = 4

C3_Witness ==
  IsMainVariadic /\ pc = "done" /\ Len(out) = 4 /\ Len(EventsOf("print")) = 4

---------------------------------------------------------------------------
(* C4.  Every call of adder with n >= 1 arguments terminates.  At every    *)
(* moment each activation but the outermost was called with its caller's   *)
(* arguments less the first, in the same order; the activations entered so *)
(* far have n, n - 1, ... arguments, so at most n - 1 recursive calls are  *)
(* made and none by the one-argument base case; and eventually the call    *)
(* returns, having made exactly n - 1 recursive calls.                     *)

C4_RecursionShape ==
  prog = "variadic" =>
    LET enters == EventsOf("enter")
        n      == Len(callArgs)
    IN  /\ stack # << >> => stack[1].args = callArgs
        /\ \A j \in 2..Len(stack) :
             /\ Len(stack[j].args) = Len(stack[j - 1].args) - 1
             /\ \A m \in 1..Len(stack[j].args) :
                  stack[j].args[m] = stack[j - 1].args[m + 1]
        /\ \A a \in 1..Len(enters) : enters[a][2] = n - a + 1 /\ enters[a][2] >= 1
        /\ AdderReturned => Len(enters) - 1 = n - 1

\* C4: every call of adder terminates, each recursive call being made with the
\* caller's arguments less the first, n - 1 recursive calls in all.
C4_AdderTerminates ==
  /\ []C4_RecursionShape
  /\ prog = "variadic" => <>AdderReturned

C4_Witness ==
  /\ prog = "variadic" /\ Len(callArgs) = MaxLen /\ pc = "done"
  /\ Len(EventsOf("enter")) = MaxLen
  /\ \E a, b \in 1..Len(callArgs) : callArgs[a] # callArgs[b]

---------------------------------------------------------------------------
(* C5.  In nullptr.cxx every call printMe(nullptr) runs the overload that  *)
(* takes an int* and prints the "I am a pointer to an integer: " line,     *)
(* never the overload that takes an int; every call printMe(0) runs the    *)
(* overload that takes an int and prints "I am an integer: 0".  The        *)
(* program as written prints the integer line, then the pointer line, each *)
(* exactly once.                                                           *)

PointerLines ==
  { "I am a pointer to an integer: 0", "I am a pointer to an integer: 0x0" }

\* C5: printMe(nullptr) runs the int* overload, printMe(0) the int overload; main
\* prints the integer line, then the pointer line, each once.
C5_OverloadDispatch ==
  prog = "nullptr" =>
    /\ Len(out) = Len(dispatched) /\ Len(dispatched) = k - 1 /\ k - 1 <= Len(calls)
    /\ \A n \in 1..Len(dispatched) :
         /\ calls[n] = "nullptr" =>
              dispatched[n] = "printMe(int*)" /\ out[n] \in PointerLines
         /\ calls[n] = "0" =>
              dispatched[n] = "printMe(int)" /\ out[n] = "I am an integer: 0"
    /\ IsMainNullptr /\ pc = "done" =>
         /\ Len(out) = 2
         /\ out[1] = "I am an integer: 0" /\ out[2] \in PointerLines
         /\ dispatched = << "printMe(int)", "printMe(int*)" >>

C5_Witness ==
  IsMainNullptr /\ pc = "done" /\ dispatched = << "printMe(int)", "printMe(int*)" >>

---------------------------------------------------------------------------
(* C6.  Each of the three programs eventually terminates; main returns     *)
(* only after its last print (all the lines of the program are out when it *)
(* has terminated, and the output never changes afterwards), the exit code *)
(* is 0, and no state has another exit code or can take no step before     *)
(* main has returned.                                                      *)

LinesOfProgram ==
  CASE prog = "initLists" -> 1 + Len(placesInit)
    [] prog = "nullptr"   -> Len(calls)
    [] prog = "variadic"  -> Len(callArgs) - 1

C6_ExitState ==
  /\ exitCode \in { << >>, << 0 >> }
  /\ exitCode # << >> <=> pc = "done"
  /\ pc = "done" => Len(out) = LinesOfProgram
  /\ pc # "done" => ENABLED Next

\* C6: each program terminates after its last print with exit code 0, and no
\* run ends otherwise.
C6_ProgramsTerminate ==
  /\ []C6_ExitState
  /\ <>[](pc = "done" /\ exitCode = << 0 >>)

C6_Witness ==
  pc = "done" /\ exitCode = << 0 >> /\ prog = "variadic" /\ Len(out) = MaxLen - 1

---------------------------------------------------------------------------
(* C7.  A Position constructed from {x, y, z} has fX = x, fY = y, fZ = z;  *)
(* one constructed from {} has fX = fY = fZ = 0.  The vector built from a  *)
(* list of brace lists holds one element per brace list, in the order      *)
(* written; built from {{1, 2, 3}, {}, {4, 5, 6}} it holds exactly three   *)
(* elements, (1, 2, 3), (0, 0, 0), (4, 5, 6).                              *)

BuiltFrom(p, b) ==
  IF Len(b) = 3
    THEN p.fX = b[1] /\ p.fY = b[2] /\ p.fZ = b[3]
    ELSE p.fX = 0 /\ p.fY = 0 /\ p.fZ = 0

\* C7: {x, y, z} gives fX = x, fY = y, fZ = z; {} gives zeros; the vector holds
\* one element per brace list, in order.
C7_BraceConstruction ==
  prog = "initLists" =>
    /\ centreOfTheUniverse # << >> => BuiltFrom(centreOfTheUniverse[1], centreInit)
    /\ PlacesConstructed =>
         /\ Len(places) = Len(placesInit)
         /\ \A n \in 1..Len(places) : BuiltFrom(places[n], placesInit[n])
         /\ IsMainInitLists =>
              /\ Len(places) = 3
              /\ places[1] = [fX |-> 1, fY |-> 2, fZ |-> 3]
              /\ places[2] = [fX |-> 0, fY |-> 0, fZ |-> 0]
              /\ places[3] = [fX |-> 4, fY |-> 5, fZ |-> 6]

C7_Witness ==
  /\ IsMainInitLists /\ PlacesConstructed
  /\ centreOfTheUniverse = << [fX |-> -1, fY |-> -100, fZ |-> -1] >>
  /\ Len(places) = 3 /\ places[2].fX = 0 /\ places[3].fZ = 6

---------------------------------------------------------------------------
(* C8.  In a call of adder with n >= 2 arguments every line is printed     *)
(* before any addition is performed: the lines are printed on the way down *)
(* by the activations with n, n - 1, ..., 2 arguments in this order, all   *)
(* n - 1 of them before the first addition, and the additions are made on  *)
(* the way back, the j-th adding argument n - j to the result of the       *)
(* previous addition (the first to the last argument): the value is        *)
(* first + (second + (... + last)).                                        *)

\* C8: all lines are printed before any addition, by activations with n, ..., 2
\* arguments in this order; the additions are right-nested.
C8_PrintsThenAdds ==
  prog = "variadic" /\ Len(callArgs) >= 2 =>
    LET prints == EventsOf("print")
        adds   == EventsOf("add")
        n      == Len(callArgs)
    IN  /\ \A a, b \in 1..Len(events) :
             events[a][1] = "print" /\ events[b][1] = "add" => a < b
        /\ \A a \in 1..Len(prints) : prints[a][2] = n - a + 1 /\ prints[a][2] >= 2
        /\ adds # << >> => Len(prints) = n - 1
        /\ \A j \in 1..Len(adds) :
             /\ adds[j][2] = j + 1
             /\ adds[j][3] = callArgs[n - j]
             /\ adds[j][4] = IF j = 1 THEN callArgs[n]
                                      ELSE adds[j - 1][3] + adds[j - 1][4]
        /\ AdderReturned =>
             /\ Len(adds) = n - 1
             /\ ret = << adds[n - 1][3] + adds[n - 1][4] >>

C8_Witness ==
  /\ IsMainVariadic /\ pc = "done"
  /\ Len(EventsOf("print")) = 4 /\ Len(EventsOf("add")) = 4
  /\ EventsOf("add")[4] = << "add", 5, 1, 20 >>

---------------------------------------------------------------------------
(* C9.  A Position's coordinates never change after its construction: no   *)
(* step changes centreOfTheUniverse once it is constructed (so             *)
(* printCoordinates leaves it as it was), no step changes the length or an *)
(* element of places once it is constructed (so the range-for loop leaves  *)
(* it as it was), and printCoordinates leaves the loop's copy as it was.   *)

C9_Frame ==
  /\ centreOfTheUniverse # << >> => centreOfTheUniverse' = centreOfTheUniverse
  /\ PlacesConstructed => places' = places
  /\ i # << >> /\ i' # << >> => i' = i

\* C9: no step changes a constructed Position: not centreOfTheUniverse, not
\* places or an element of it, not the loop's copy.
C9_PositionsUnchanged == [][C9_Frame]_vars

C9_Witness ==
  /\ prog = "initLists" /\ pc = "done" /\ Len(places) = MaxPlaces
  /\ Len(out) = 1 + MaxPlaces
  /\ centreOfTheUniverse # << >> /\ centreOfTheUniverse[1].fX # 0

---------------------------------------------------------------------------
(* C10.  What an adder activation returns depends only on its arguments:   *)
(* the activation called with the last m arguments of main's call returns  *)
(* the sum of exactly these m; the activations return in the order m = 1,  *)
(* 2, ..., so unwinding adder(1, 2, 3, 8, 7) returns 7, 15, 18, 20, 21 in  *)
(* this order.  The value and the number of lines of a finished call are   *)
(* functions of the argument sequence alone (in particular the same under  *)
(* both toolchains), so two calls with the same arguments agree on both.   *)

\* C10: the activation called with the last m arguments returns their sum; the
\* returns of main's call are 7, 15, 18, 20, 21; value and line count depend
\* on the arguments alone.
C10_SuffixSums ==
  prog = "variadic" =>
    LET returns == EventsOf("return")
    IN  /\ \A m \in 1..Len(returns) :
             /\ returns[m][2] = m
             /\ returns[m][3] = SumSeq(Suffix(callArgs, m))
        /\ ret # << >> => ret[1] = returns[Len(returns)][3]
        /\ AdderReturned =>
             /\ Len(returns) = Len(callArgs)
             /\ ret = << SumSeq(callArgs) >> /\ Len(out) = Len(callArgs) - 1
        /\ IsMainVariadic =>
             IsPrefix([m \in 1..Len(returns) |-> returns[m][3]], << 7, 15, 18, 20, 21 >>)

C10_Witness ==
  /\ IsMainVariadic /\ pc = "done"
  /\ [m \in 1..Len(EventsOf("return")) |-> EventsOf("return")[m][3]]
       = << 7, 15, 18, 20, 21 >>

==========================================================================
